---- MODULE Spec2Model ----
(***************************************************************************)
(* snowmeth frontend: the step workflow (App.tsx, useGeneration,           *)
(* StepContent.tsx, StepNavigation.tsx) and the chapter editor             *)
(* (NovelWriterEditor) as state machines.                                  *)
(*                                                                         *)
(* Scheduling model: the browser's event loop.  Every event handler,       *)
(* promise continuation and timer callback runs to completion, and the     *)
(* React re-render and effects it causes are taken together with it.       *)
(* The HTTP backend is not part of the frontend sources; its handlers      *)
(* (Server...) follow the workflow specification.                          *)
(***************************************************************************)
EXTENDS Integers, Sequences, FiniteSets, TLC

\* src/unnamed/part_003:1084  export const MAX_STEPS = 10;
MAX_STEPS == 10
\* src/frontend/src/types/api.ts:126  if (newHistory.length > 10)
HISTORY_LIMIT == 10

\* Bounds of the model.
MaxInflight == 2      \* HTTP requests of the step workflow in flight at once
MaxClicks == 2        \* presses of a button that sends a request or asks for
                      \* a confirmation, in one run of the step workflow

NumChapters == 3      \* scenes of step 9, one chapter each
MaxTasks == 2         \* chapter generations/refinements started in one run
MaxEdits == 2         \* changes made to the character list in one run
MaxSaves == 2         \* calls of the save function in flight at once

Steps == 1..MAX_STEPS
Chapters == 1..NumChapters
Tasks == 1..MaxTasks
Slots == 1..MaxInflight

NoContent == <<>>
\* What a generation endpoint may return for a step: text, or only whitespace.
GenContents == { <<"a">>, <<" ">> }

\* Two components that stand beside the workflow: the auto-save hook of the
\* character editor and the store of background tasks.  The step workflow,
\* the chapter editor and the router leave them as they are.
VARIABLES
    characters,      \* CharacterListEditor: the data handed to useAutoSave
    isDirty,         \* useAutoSave: isDirty
    isSaving,        \* useAutoSave: isSaving
    saveError,       \* useAutoSave: error
    timers,          \* debounce: the pending timers, each with the data to save
    saves,           \* calls of saveFunction that have not returned
    savedData,       \* what the last successful save stored
    lastSaved,       \* useAutoSave: lastSaved
    activeTasks,     \* useTasksStore: activeTasks
    taskHistory,     \* useTasksStore: taskHistory
    lastCall         \* the last call made on the task store

saveVars == <<characters, isDirty, isSaving, saveError, timers, saves,
              savedData, lastSaved>>
storeVars == <<activeTasks, taskHistory, lastCall>>
asideVars == <<saveVars, storeVars>>

\* The hash router and the loading of a story named by the route.  The step
\* workflow and the chapter editor leave both as they are.
VARIABLES
    currentRoute,    \* useHashRouter: the route parsed from the hash
    loadFromRoute    \* App's route effect: the story being fetched, if any

routeVars == <<currentRoute, loadFromRoute>>

VARIABLES
    server,          \* the story as the backend stores it
    serverChapters,  \* the chapters of the story as the backend stores them
    selectedStory,   \* App: useState<Story>, the story as the frontend holds it
    currentStep,     \* App: useState(1), the step being viewed
    isGenerating,    \* useGeneration
    isRefining,      \* useGeneration
    showRefineInput, \* StepContent
    error,           \* useStories: error message shown by App
    reqs,            \* HTTP requests in flight, by slot
    clicks           \* requests sent by the user so far (bounded by MaxClicks)

stepVars == <<server, serverChapters, selectedStory, currentStep, isGenerating,
              isRefining, showRefineInput, error, reqs, clicks,
              currentRoute, loadFromRoute, asideVars>>

VARIABLES
    chapters,          \* NovelWriterEditor: useState<Chapter[]>
    storyChapters,     \* story.chapters of the parent (App's selectedStory)
    selectedChapter,   \* 0 stands for null
    nwIsGenerating,    \* NovelWriterEditor: isGenerating
    generatingChapter, \* 0 stands for null
    nwIsRefining,      \* NovelWriterEditor: isRefining
    nwShowRefineInput, \* NovelWriterEditor: showRefineInput
    nwError,           \* NovelWriterEditor: error
    typewriterBuffer,
    displayedContent,
    finalizeTimers,    \* pending setTimeout(..., 100) callbacks, oldest first
    tasks,             \* the calls of handleGenerateChapter/handleRefineChapter
    finalizeCount      \* history: finalize callbacks run, per task

chapterVars == <<chapters, storyChapters, selectedChapter, nwIsGenerating,
                 generatingChapter, nwIsRefining, nwShowRefineInput, nwError,
                 typewriterBuffer, displayedContent, finalizeTimers, tasks,
                 finalizeCount, currentRoute, loadFromRoute, asideVars>>

\* The editor's own state: everything but the chapter list, which is derived
\* from the story the parent holds.
nwVars == <<selectedChapter, nwIsGenerating, generatingChapter,
            nwIsRefining, nwShowRefineInput, nwError, typewriterBuffer,
            displayedContent, finalizeTimers, tasks, finalizeCount>>

\* What a handler of the step workflow leaves as it is.
editorVars == <<nwVars, currentRoute, loadFromRoute, asideVars>>

\* Everything but the two components that stand beside the workflow.
workflowVars == <<server, serverChapters, selectedStory, currentStep,
                  isGenerating, isRefining, showRefineInput, error, reqs,
                  clicks, chapters, storyChapters, nwVars, routeVars>>

vars == <<stepVars, chapterVars, routeVars, asideVars>>

-----------------------------------------------------------------------------
(* Pure helpers *)

IsSpace(c) == c = " "

\* String.prototype.trim on a sequence of characters.
RECURSIVE TrimLeft(_)
TrimLeft(s) ==
    IF s = <<>> THEN <<>>
    ELSE IF IsSpace(Head(s)) THEN TrimLeft(Tail(s)) ELSE s

RECURSIVE TrimRight(_)
TrimRight(s) ==
    IF s = <<>> THEN <<>>
    ELSE IF IsSpace(s[Len(s)]) THEN TrimRight(SubSeq(s, 1, Len(s) - 1)) ELSE s

Trim(s) == TrimRight(TrimLeft(s))

\* GENERATION_ENDPOINTS[stepNum] is non-null (step 10 has no endpoint).
HasEndpoint(stepNum) == stepNum \in 1..9

NoReq == [kind |-> "none"]

FreeSlots == { i \in Slots : reqs[i] = NoReq }
FreeSlot == CHOOSE i \in FreeSlots : \A j \in FreeSlots : i <= j

\* phase and before are used by refine requests only (the two halves of /refine).
\* confirmed: the user accepted a confirm() dialog before the request was sent.
Request(kind, step) ==
    [kind |-> kind, step |-> step, phase |-> "sent", before |-> 0,
     confirmed |-> FALSE]

-----------------------------------------------------------------------------
(* StepContent.tsx: what the component computes from its props *)

\* StepContent.tsx:42-43  content && content.trim().length > 0
hasContent(story, stepNum) == Len(Trim(story.steps[stepNum])) > 0

\* StepContent.tsx:44
isCurrentStep(story, stepNum) == stepNum = story.current_step

\* StepContent.tsx:99,108  renderContent shows the generated content (with the
\* refine controls and the Regenerate button) only in its last branch.
ShowsGeneratedContent ==
    /\ currentStep # 10
    /\ hasContent(selectedStory, currentStep)
    /\ ~isGenerating

-----------------------------------------------------------------------------
(* Backend (not in the frontend sources): the StepLedger of the workflow   *)
(* specification, one atomic handler per endpoint.  A handler takes effect *)
(* at the moment its reply reaches the frontend (Deliver...), except the    *)
(* cascade delete of /refine, which is a step of its own.                  *)

\* Mutant of rollbackTo: the cascade spares the first step after the target.
rollbackTo_KeepsNext(story, step) ==
    [story_id |-> story.story_id,
     current_step |-> step,
     steps |-> [s \in Steps |-> IF s > step + 1 THEN NoContent ELSE story.steps[s]]]

\* rollbackTo(step): deletes steps[s] for all s > step, sets current_step.
rollbackTo(story, step) ==
    [story_id |-> story.story_id,
     current_step |-> step,
     steps |-> [s \in Steps |-> IF s > step THEN NoContent ELSE story.steps[s]]]

\* commit(step, content): sets steps[step].  The frontier moves only through
\* Advance (the frontend's Accept & Continue posts /next).
commit(story, step, content) == [story EXCEPT !.steps[step] = content]

Outcome(ok, story) == [ok |-> ok, story |-> story]

\* Any request may fail in transport or in the backend (response.ok false,
\* or fetch rejects); the stored story is then as it was.
HttpError(story) == Outcome(FALSE, story)

\* POST /api/stories/{id}/generate_...: fresh generation of the frontier step.
ServerGenerate(story, step) ==
    IF step = story.current_step
    THEN { Outcome(TRUE, commit(story, step, c)) : c \in GenContents }
    ELSE { Outcome(FALSE, story) }

\* POST /refine, second half: regeneration with instructions, then commit.
ServerRefineRegenerate(story, step) ==
    IF step = story.current_step
    THEN { Outcome(TRUE, commit(story, step, c)) : c \in GenContents }
    ELSE { Outcome(FALSE, story) }

\* POST /next: Advance.  StepNotReady when the content is empty or
\* whitespace-only.
ServerAdvance(story) ==
    IF hasContent(story, story.current_step) /\ story.current_step < MAX_STEPS
    THEN { Outcome(TRUE, [story EXCEPT !.current_step = @ + 1]) }
    ELSE { Outcome(FALSE, story) }

\* rollbackTo(step) also clears the chapters of the story (they depend on the
\* last planning step); at the target step already, nothing is deleted.
rollbackChapters(story, step, existingChapters) ==
    IF step < story.current_step
    THEN [k \in Chapters |-> NoContent]
    ELSE existingChapters

\* POST /rollback/{targetStep}: rollbackTo, idempotent at the target.
ServerRollback(story, step) ==
    IF step <= story.current_step
    THEN { Outcome(TRUE, rollbackTo(story, step)) }
    ELSE { Outcome(FALSE, story) }

\* POST /refine, first half: the cascade delete (rollbackTo) when the step is
\* below the frontier; regeneration has not begun.
ServerRefineRollback(i) ==
    /\ reqs[i].kind = "refine" /\ reqs[i].phase = "sent"
    /\ IF reqs[i].step <= server.current_step
       THEN /\ server' = IF reqs[i].step < server.current_step
                         THEN rollbackTo(server, reqs[i].step)
                         ELSE server
            /\ serverChapters' =
                   rollbackChapters(server, reqs[i].step, serverChapters)
            /\ reqs' = [reqs EXCEPT ![i].phase = "rolledback",
                                    ![i].before = server.current_step]
       ELSE /\ server' = server
            /\ serverChapters' = serverChapters
            /\ reqs' = [reqs EXCEPT ![i].phase = "rejected"]
    /\ UNCHANGED <<selectedStory, currentStep, isGenerating, isRefining,
                   showRefineInput, error, clicks>>
    /\ UNCHANGED chapterVars

-----------------------------------------------------------------------------
(* useGeneration (hooks/useHashRouter.ts:59-141) and App.tsx *)

\* part_005:24, 44-84  the chapter list is rebuilt from story.chapters.
DeriveChapters(existingChapters) ==
    [k \in Chapters |-> [content |-> existingChapters[k], isGenerating |-> FALSE]]

\* Mutant of MergeChapters: the chapters the frontend holds survive the merge.
MergeChapters_KeepsHeld(prevChapters, updatedChapters) == prevChapters

\* App.tsx:34-38  onSuccess: {...prevStory, ...updatedStory}, for the chapters
\* of the story: the response's chapters replace the held ones.
MergeChapters(prevChapters, updatedChapters) == updatedChapters

\* The story held by App has new chapters; the editor's effect (part_005:
\* 44-84) rebuilds its chapter list from them.
InstallChapters(newChapters) ==
    /\ storyChapters' = newChapters
    /\ chapters' = DeriveChapters(newChapters)

\* Mutant of MergeStory: only the steps of the response are merged.
MergeStory_KeepsCurrentStep(prevStory, updatedStory) ==
    [story_id |-> updatedStory.story_id,
     current_step |-> prevStory.current_step, steps |-> updatedStory.steps]

\* Mutant of MergeStory: only current_step of the response is merged.
MergeStory_KeepsSteps(prevStory, updatedStory) ==
    [story_id |-> updatedStory.story_id,
     current_step |-> updatedStory.current_step, steps |-> prevStory.steps]

\* App.tsx:34-38  onSuccess: setSelectedStory(prev => ({...prev, ...updatedStory}))
\* The response carries the whole story, so its fields replace the held ones.
MergeStory(prevStory, updatedStory) ==
    [story_id |-> updatedStory.story_id,
     current_step |-> updatedStory.current_step, steps |-> updatedStory.steps]

\* useGeneration.generateContent up to the fetch (lines 72-88), on slot i.
\* There is no check of a generation already running.
generateContent(i, stepNum) ==
    IF ~HasEndpoint(stepNum)
    THEN \* Step 10: return without an error
         /\ reqs' = [reqs EXCEPT ![i] = NoReq]
         /\ UNCHANGED isGenerating
    ELSE /\ isGenerating' = TRUE
         /\ reqs' = [reqs EXCEPT ![i] = Request("generate", stepNum)]

\* StepContent.tsx:309-318  Generate button -> App.handleGenerate
ClickGenerate ==
    /\ isCurrentStep(selectedStory, currentStep)
    /\ ~hasContent(selectedStory, currentStep)
    /\ HasEndpoint(currentStep)
    /\ ~isGenerating                      \* disabled={isGenerating}
    /\ FreeSlots # {} /\ clicks < MaxClicks
    /\ clicks' = clicks + 1
    /\ generateContent(FreeSlot, currentStep)
    /\ UNCHANGED <<server, serverChapters, selectedStory, currentStep, isRefining,
                   showRefineInput, error>>
    /\ UNCHANGED chapterVars

\* Mutant of ClickRegenerate: the button is shown for every step viewed.
ClickRegenerate_AnyStep ==
    /\ ShowsGeneratedContent
    /\ ~(isGenerating \/ ~HasEndpoint(currentStep))
    /\ FreeSlots # {} /\ clicks < MaxClicks
    /\ clicks' = clicks + 1
    /\ generateContent(FreeSlot, currentStep)
    /\ UNCHANGED <<server, serverChapters, selectedStory, currentStep, isRefining,
                   showRefineInput, error>>
    /\ UNCHANGED chapterVars

\* StepContent.tsx:219-230  Regenerate button -> App.handleGenerate
ClickRegenerate ==
    /\ ShowsGeneratedContent
    /\ isCurrentStep(selectedStory, currentStep)
    /\ ~(isGenerating \/ ~HasEndpoint(currentStep))   \* disabled={...}
    /\ FreeSlots # {} /\ clicks < MaxClicks
    /\ clicks' = clicks + 1
    /\ generateContent(FreeSlot, currentStep)
    /\ UNCHANGED <<server, serverChapters, selectedStory, currentStep, isRefining,
                   showRefineInput, error>>
    /\ UNCHANGED chapterVars

\* StepContent.tsx:163-174  Refine button: opens the inline input
ClickRefine ==
    /\ ShowsGeneratedContent
    /\ ~showRefineInput /\ ~isRefining
    /\ showRefineInput' = TRUE
    /\ UNCHANGED <<server, serverChapters, selectedStory, currentStep,
                   isGenerating, isRefining,
                   error, reqs, clicks>>
    /\ UNCHANGED chapterVars

\* StepContent.tsx:92-95  handleRefineCancel
RefineCancel ==
    /\ ShowsGeneratedContent
    /\ showRefineInput /\ ~isRefining     \* disabled={isRefining}
    /\ showRefineInput' = FALSE
    /\ UNCHANGED <<server, serverChapters, selectedStory, currentStep,
                   isGenerating, isRefining,
                   error, reqs, clicks>>
    /\ UNCHANGED chapterVars

\* Mutant of RefineSubmit: the refinement is sent without a confirmation.
RefineSubmit_NoConfirm ==
    /\ ShowsGeneratedContent
    /\ showRefineInput /\ ~isRefining
    /\ FreeSlots # {} /\ clicks < MaxClicks
    /\ clicks' = clicks + 1
    /\ isRefining' = TRUE
    /\ reqs' = [reqs EXCEPT ![FreeSlot] = Request("refine", currentStep)]
    /\ UNCHANGED <<server, serverChapters, selectedStory, currentStep, isGenerating,
                   showRefineInput, error>>
    /\ UNCHANGED chapterVars

\* StepContent.tsx:65-81  handleRefineSubmit with non-blank instructions, then
\* useGeneration.refineContent up to the fetch (lines 105-118).
RefineSubmit ==
    /\ ShowsGeneratedContent
    /\ showRefineInput /\ ~isRefining     \* disabled={isRefining || ...}
    /\ FreeSlots # {} /\ clicks < MaxClicks
    /\ clicks' = clicks + 1
    /\ \E confirmed \in BOOLEAN :
          LET hasFutureSteps == currentStep < selectedStory.current_step
          IN IF hasFutureSteps /\ ~confirmed
             THEN UNCHANGED <<isRefining, reqs>>        \* User cancelled
             ELSE /\ isRefining' = TRUE
                  /\ reqs' = [reqs EXCEPT ![FreeSlot] =
                                 [Request("refine", currentStep)
                                     EXCEPT !.confirmed = hasFutureSteps]]
    /\ UNCHANGED <<server, serverChapters, selectedStory, currentStep, isGenerating,
                   showRefineInput, error>>
    /\ UNCHANGED chapterVars

\* Mutant of ClickAccept: the button does not look at the step's content.
ClickAccept_AnyContent ==
    /\ isCurrentStep(selectedStory, currentStep)
    /\ currentStep < MAX_STEPS
    /\ ~isGenerating
    /\ FreeSlots # {} /\ clicks < MaxClicks
    /\ clicks' = clicks + 1
    /\ reqs' = [reqs EXCEPT ![FreeSlot] = Request("advance", 0)]
    /\ UNCHANGED <<server, serverChapters, selectedStory, currentStep,
                   isGenerating, isRefining,
                   showRefineInput, error>>
    /\ UNCHANGED chapterVars

\* StepContent.tsx:331-340 Accept & Continue -> App.handleAdvanceStory (161-165)
ClickAccept ==
    /\ isCurrentStep(selectedStory, currentStep)
    /\ hasContent(selectedStory, currentStep)
    /\ currentStep < MAX_STEPS
    /\ ~isGenerating                      \* disabled={isGenerating}
    /\ FreeSlots # {} /\ clicks < MaxClicks
    /\ clicks' = clicks + 1
    /\ reqs' = [reqs EXCEPT ![FreeSlot] = Request("advance", 0)]
    /\ UNCHANGED <<server, serverChapters, selectedStory, currentStep,
                   isGenerating, isRefining,
                   showRefineInput, error>>
    /\ UNCHANGED chapterVars

\* StepContent.tsx:247-267 Reset to this step -> App.handleRollback (213-217)
ClickRollback ==
    /\ currentStep < selectedStory.current_step
    /\ ~isGenerating                      \* disabled={isGenerating}
    /\ FreeSlots # {} /\ clicks < MaxClicks
    /\ clicks' = clicks + 1
    /\ \E confirmed \in BOOLEAN :
          IF confirmed
          THEN reqs' = [reqs EXCEPT ![FreeSlot] =
                           [Request("rollback", currentStep)
                               EXCEPT !.confirmed = TRUE]]
          ELSE UNCHANGED reqs
    /\ UNCHANGED <<server, serverChapters, selectedStory, currentStep,
                   isGenerating, isRefining,
                   showRefineInput, error>>
    /\ UNCHANGED chapterVars

\* StepNavigation.tsx:37-53 -> App.handleStepChange (110-118)
StepChange(stepNum) ==
    /\ stepNum <= selectedStory.current_step        \* canAccess
    /\ stepNum # currentStep
    /\ currentStep' = stepNum
    /\ UNCHANGED <<server, serverChapters, selectedStory, isGenerating, isRefining,
                   showRefineInput, error, reqs, clicks>>
    /\ UNCHANGED chapterVars

\* App.tsx:251-256  the error banner's close button
DismissError ==
    /\ error # "none"
    /\ error' = "none"
    /\ UNCHANGED <<server, serverChapters, selectedStory, currentStep,
                   isGenerating, isRefining,
                   showRefineInput, reqs, clicks>>
    /\ UNCHANGED chapterVars

\* useGeneration.generateContent after the fetch (lines 90-102)
DeliverGenerate(i) ==
    /\ reqs[i].kind = "generate"
    /\ \E r \in ServerGenerate(server, reqs[i].step) \cup {HttpError(server)} :
          /\ server' = r.story
          /\ serverChapters' = serverChapters
          /\ IF r.ok
             THEN /\ selectedStory' = MergeStory(selectedStory, r.story)
                  /\ InstallChapters(MergeChapters(storyChapters, serverChapters))
                  /\ currentStep' = r.story.current_step
                  /\ UNCHANGED error
             ELSE /\ error' = "Failed to generate"
                  /\ UNCHANGED <<chapters, storyChapters>>
                  /\ UNCHANGED <<selectedStory, currentStep>>
    /\ isGenerating' = FALSE                         \* finally
    /\ reqs' = [reqs EXCEPT ![i] = NoReq]
    /\ UNCHANGED <<isRefining, showRefineInput, clicks>>
    /\ UNCHANGED editorVars

\* useGeneration.refineContent after the fetch (lines 120-132), then the rest
\* of StepContent.handleRefineSubmit (lines 83-89)
DeliverRefine(i) ==
    /\ reqs[i].kind = "refine"
    /\ \E r \in (IF reqs[i].phase = "rolledback"
                 THEN ServerRefineRegenerate(server, reqs[i].step)
                 ELSE {}) \cup {HttpError(server)} :
          /\ server' = r.story
          /\ serverChapters' = serverChapters
          /\ IF r.ok
             THEN /\ selectedStory' = MergeStory(selectedStory, r.story)
                  /\ InstallChapters(MergeChapters(storyChapters, serverChapters))
                  /\ currentStep' = r.story.current_step
                  /\ UNCHANGED error
             ELSE /\ error' = "Failed to refine content"
                  /\ UNCHANGED <<chapters, storyChapters>>
                  /\ UNCHANGED <<selectedStory, currentStep>>
    /\ isRefining' = FALSE                           \* finally
    /\ showRefineInput' = FALSE
    /\ reqs' = [reqs EXCEPT ![i] = NoReq]
    /\ UNCHANGED <<isGenerating, clicks>>
    /\ UNCHANGED editorVars

\* Mutant of DeliverAdvance: no generation follows the advance.
DeliverAdvance_NoAutoGenerate(i) ==
    /\ reqs[i].kind = "advance"
    /\ \E r \in ServerAdvance(server) \cup {HttpError(server)} :
          /\ server' = r.story
          /\ serverChapters' = serverChapters
          /\ IF r.ok
             THEN /\ selectedStory' = r.story
                  /\ InstallChapters(serverChapters)
                  /\ currentStep' = r.story.current_step
                  /\ UNCHANGED error
             ELSE /\ error' = "Failed to advance story"
                  /\ UNCHANGED <<chapters, storyChapters>>
                  /\ UNCHANGED <<selectedStory, currentStep>>
    /\ reqs' = [reqs EXCEPT ![i] = NoReq]
    /\ UNCHANGED <<isGenerating, isRefining, showRefineInput, clicks>>
    /\ UNCHANGED editorVars

\* Mutant of DeliverAdvance: the generation that follows the advance targets
\* the step after the new current step.
DeliverAdvance_GeneratesNextStep(i) ==
    /\ reqs[i].kind = "advance"
    /\ \E r \in ServerAdvance(server) \cup {HttpError(server)} :
          /\ server' = r.story
          /\ serverChapters' = serverChapters
          /\ IF r.ok
             THEN /\ selectedStory' = r.story
                  /\ InstallChapters(serverChapters)
                  /\ currentStep' = r.story.current_step
                  /\ generateContent(i, r.story.current_step + 1)
                  /\ UNCHANGED error
             ELSE /\ error' = "Failed to advance story"
                  /\ UNCHANGED <<chapters, storyChapters>>
                  /\ reqs' = [reqs EXCEPT ![i] = NoReq]
                  /\ UNCHANGED <<selectedStory, currentStep, isGenerating>>
    /\ UNCHANGED <<isRefining, showRefineInput, clicks>>
    /\ UNCHANGED editorVars

\* App.handleAdvanceStory after the await (lines 166-173): the story is
\* replaced, the view moves to its current step, and generation of that step
\* starts at once.
DeliverAdvance(i) ==
    /\ reqs[i].kind = "advance"
    /\ \E r \in ServerAdvance(server) \cup {HttpError(server)} :
          /\ server' = r.story
          /\ serverChapters' = serverChapters
          /\ IF r.ok
             THEN /\ selectedStory' = r.story
                  /\ InstallChapters(serverChapters)
                  /\ currentStep' = r.story.current_step
                  /\ generateContent(i, r.story.current_step)
                  /\ UNCHANGED error
             ELSE /\ error' = "Failed to advance story"
                  /\ UNCHANGED <<chapters, storyChapters>>
                  /\ reqs' = [reqs EXCEPT ![i] = NoReq]
                  /\ UNCHANGED <<selectedStory, currentStep, isGenerating>>
    /\ UNCHANGED <<isRefining, showRefineInput, clicks>>
    /\ UNCHANGED editorVars

\* Mutant of DeliverRollback: the story of the reply is not installed.
DeliverRollback_KeepsStory(i) ==
    /\ reqs[i].kind = "rollback"
    /\ \E r \in ServerRollback(server, reqs[i].step) \cup {HttpError(server)} :
          /\ server' = r.story
          /\ serverChapters' =
                 IF r.ok
                 THEN rollbackChapters(server, reqs[i].step, serverChapters)
                 ELSE serverChapters
          /\ IF r.ok
             THEN /\ currentStep' = r.story.current_step
                  /\ UNCHANGED <<selectedStory, error, chapters, storyChapters>>
             ELSE /\ error' = "Failed to rollback story"
                  /\ UNCHANGED <<chapters, storyChapters>>
                  /\ UNCHANGED <<selectedStory, currentStep>>
    /\ reqs' = [reqs EXCEPT ![i] = NoReq]
    /\ UNCHANGED <<isGenerating, isRefining, showRefineInput, clicks>>
    /\ UNCHANGED editorVars

\* App.handleRollback after the await (lines 218-222)
DeliverRollback(i) ==
    /\ reqs[i].kind = "rollback"
    /\ \E r \in ServerRollback(server, reqs[i].step) \cup {HttpError(server)} :
          /\ server' = r.story
          /\ serverChapters' =
                 IF r.ok
                 THEN rollbackChapters(server, reqs[i].step, serverChapters)
                 ELSE serverChapters
          /\ IF r.ok
             THEN /\ selectedStory' = r.story
                  /\ InstallChapters(serverChapters')
                  /\ currentStep' = r.story.current_step
                  /\ UNCHANGED error
             ELSE /\ error' = "Failed to rollback story"
                  /\ UNCHANGED <<chapters, storyChapters>>
                  /\ UNCHANGED <<selectedStory, currentStep>>
    /\ reqs' = [reqs EXCEPT ![i] = NoReq]
    /\ UNCHANGED <<isGenerating, isRefining, showRefineInput, clicks>>
    /\ UNCHANGED editorVars

-----------------------------------------------------------------------------
(* NovelWriterEditor: the chapters of the novel, streamed from the backend *)
(* and typed out by the typewriter effect.  The backend is an environment *)
(* that answers a request, delivers fragments, closes or breaks a stream.  *)

\* The text a stream carries, one content event per character; a stream
\* delivers a prefix of it before it closes or breaks.
StreamedText == <<"a", "b">>

\* The j-th content event of the stream of task t (the characters of two
\* streams differ); task 0 stands for the chapters loaded with the story.
Fragment(t, j) == <<t, StreamedText[j]>>
LoadedChapter == << Fragment(0, 1) >>

\* The task whose stream filled this (non-empty) buffer.
TaskOf(buffer) == buffer[1][1]

\* prior is the content the chapter had when the request was sent.
NoTask ==
    [kind |-> "none", chapter |-> 0, phase |-> "idle", fullContent |-> <<>>,
     prior |-> <<>>]

FreeTasks == { t \in Tasks : tasks[t].phase = "idle" }
NextTask == CHOOSE t \in FreeTasks : \A u \in FreeTasks : t <= u

\* part_005:424-432
canGenerateChapter(chapterNumber) ==
    \/ chapterNumber = 1
    \/ \A k \in Chapters : k < chapterNumber => chapters[k].content # NoContent

\* part_005:441-443  the highest numbered chapter with content, 0 if none.
RECURSIVE lastCompletedUpTo(_)
lastCompletedUpTo(n) ==
    IF n = 0 THEN 0
    ELSE IF chapters[n].content # NoContent THEN n
    ELSE lastCompletedUpTo(n - 1)

lastCompletedChapter == lastCompletedUpTo(NumChapters)

\* Mutant of canRefineChapter: any chapter that has content can be refined.
canRefineChapter_AnyCompleted(chapterNumber) ==
    chapters[chapterNumber].content # NoContent

\* part_005:437-446
canRefineChapter(chapterNumber) ==
    /\ chapters[chapterNumber].content # NoContent
    /\ chapterNumber = lastCompletedChapter

\* part_005:531  the viewer shows the selected chapter (not the placeholder).
ViewerShowsChapter ==
    /\ selectedChapter # 0
    /\ \/ chapters[selectedChapter].content # NoContent
       \/ chapters[selectedChapter].isGenerating

\* part_005:167-180  handleGenerateChapter up to the fetch.
handleGenerateChapter(chapterNumber) ==
    /\ FreeTasks # {}
    /\ nwIsGenerating' = TRUE
    /\ generatingChapter' = chapterNumber
    /\ nwError' = "none"
    /\ tasks' = [tasks EXCEPT ![NextTask] =
                    [kind |-> "generate", chapter |-> chapterNumber,
                     phase |-> "fetch", fullContent |-> <<>>,
                     prior |-> chapters[chapterNumber].content]]

\* part_005:322-334  handleRefineChapter up to the fetch.
handleRefineChapter(chapterNumber) ==
    /\ FreeTasks # {}
    /\ nwIsRefining' = TRUE
    /\ nwError' = "none"
    /\ tasks' = [tasks EXCEPT ![NextTask] =
                    [kind |-> "refine", chapter |-> chapterNumber,
                     phase |-> "fetch", fullContent |-> <<>>,
                     prior |-> chapters[chapterNumber].content]]

\* part_005:487-490  a chapter of the list is clicked.
SelectChapter(k) ==
    /\ selectedChapter # k
    /\ selectedChapter' = k
    /\ UNCHANGED <<chapters, storyChapters, nwIsGenerating, generatingChapter,
                   nwIsRefining, nwShowRefineInput, nwError, typewriterBuffer,
                   displayedContent, finalizeTimers, tasks, finalizeCount>>
    /\ UNCHANGED stepVars

\* part_005:508-519  the Generate button of a chapter in the list.
ClickGenerateChapter(k) ==
    /\ chapters[k].content = NoContent
    /\ ~chapters[k].isGenerating
    /\ canGenerateChapter(k)
    /\ ~nwIsGenerating
    /\ handleGenerateChapter(k)
    /\ UNCHANGED <<chapters, storyChapters, selectedChapter, nwIsRefining,
                   nwShowRefineInput, typewriterBuffer, displayedContent,
                   finalizeTimers, finalizeCount>>
    /\ UNCHANGED stepVars

\* part_005:607-617  the "Generate Chapter k" button of the placeholder that
\* the viewer shows for a selected chapter without content.
ClickGenerateSelected ==
    /\ selectedChapter # 0
    /\ ~ViewerShowsChapter
    /\ ~nwIsGenerating
    /\ handleGenerateChapter(selectedChapter)
    /\ UNCHANGED <<chapters, storyChapters, selectedChapter, nwIsRefining,
                   nwShowRefineInput, typewriterBuffer, displayedContent,
                   finalizeTimers, finalizeCount>>
    /\ UNCHANGED stepVars

\* part_005:545-553, 258-276  Regenerate: after the confirmation the later
\* chapters are cleared and the chapter is generated again.
ClickRegenerateChapter ==
    /\ ViewerShowsChapter
    /\ ~chapters[selectedChapter].isGenerating
    /\ ~(nwIsGenerating \/ nwIsRefining)
    /\ FreeTasks # {}
    /\ \E confirmed \in BOOLEAN :
        IF confirmed
        THEN LET hasLaterChapters ==
                     \E k \in Chapters :
                         k > selectedChapter /\ chapters[k].content # NoContent
             IN /\ chapters' =
                       IF hasLaterChapters
                       THEN [k \in Chapters |->
                               IF k > selectedChapter
                               THEN [chapters[k] EXCEPT !.content = NoContent]
                               ELSE chapters[k]]
                       ELSE chapters
                /\ handleGenerateChapter(selectedChapter)
        ELSE UNCHANGED <<chapters, nwIsGenerating, generatingChapter, nwError,
                         tasks>>
    /\ UNCHANGED <<storyChapters, selectedChapter, nwIsRefining,
                   nwShowRefineInput, typewriterBuffer, displayedContent,
                   finalizeTimers, finalizeCount>>
    /\ UNCHANGED stepVars

\* part_005:536-544  the Refine button shows and hides the instructions.
ClickRefineChapter ==
    /\ ViewerShowsChapter
    /\ canRefineChapter(selectedChapter)
    /\ ~chapters[selectedChapter].isGenerating
    /\ ~(nwIsGenerating \/ nwIsRefining)
    /\ nwShowRefineInput' = ~nwShowRefineInput
    /\ UNCHANGED <<chapters, storyChapters, selectedChapter, nwIsGenerating,
                   generatingChapter, nwIsRefining, nwError, typewriterBuffer,
                   displayedContent, finalizeTimers, tasks, finalizeCount>>
    /\ UNCHANGED stepVars

\* part_005:557  the instructions and their two buttons are rendered.
RefineInputShown ==
    /\ ViewerShowsChapter
    /\ nwShowRefineInput
    /\ canRefineChapter(selectedChapter)
    /\ ~chapters[selectedChapter].isGenerating

\* part_005:572-578  Apply Refinement (disabled while the instructions are
\* blank or a refinement runs).
SubmitRefineChapter ==
    /\ RefineInputShown
    /\ ~nwIsRefining
    /\ \E refineInstructions \in GenContents : Trim(refineInstructions) # <<>>
    /\ handleRefineChapter(selectedChapter)
    /\ UNCHANGED <<chapters, storyChapters, selectedChapter, nwIsGenerating,
                   generatingChapter, nwShowRefineInput, typewriterBuffer,
                   displayedContent, finalizeTimers, finalizeCount>>
    /\ UNCHANGED stepVars

\* part_005:579-588  Cancel of the instructions.
CancelRefineChapter ==
    /\ RefineInputShown
    /\ ~nwIsRefining
    /\ nwShowRefineInput' = FALSE
    /\ UNCHANGED <<chapters, storyChapters, selectedChapter, nwIsGenerating,
                   generatingChapter, nwIsRefining, nwError, typewriterBuffer,
                   displayedContent, finalizeTimers, tasks, finalizeCount>>
    /\ UNCHANGED stepVars

\* part_005:182-207 (generate), 336-358 (refine)  the response is OK and has
\* a body: the chapter is emptied and marked as being generated, the
\* typewriter is reset, and generate also selects the chapter.
StreamOpened(t) ==
    /\ tasks[t].phase = "fetch"
    /\ selectedChapter' = IF tasks[t].kind = "generate" THEN tasks[t].chapter
                          ELSE selectedChapter
    /\ typewriterBuffer' = <<>>
    /\ displayedContent' = <<>>
    /\ chapters' = [chapters EXCEPT ![tasks[t].chapter] =
                       [content |-> NoContent, isGenerating |-> TRUE]]
    /\ tasks' = [tasks EXCEPT ![t].phase = "reading"]
    /\ UNCHANGED <<storyChapters, nwIsGenerating, generatingChapter,
                   nwIsRefining, nwShowRefineInput, nwError, finalizeTimers,
                   finalizeCount>>
    /\ UNCHANGED stepVars

\* part_005:250-255 (generate), 404-408 (refine)  the catch block.
catchStreamError(t) ==
    /\ nwError' = IF tasks[t].kind = "generate" THEN "Failed to generate chapter"
                  ELSE "Failed to refine chapter"
    /\ nwIsGenerating' = IF tasks[t].kind = "generate" THEN FALSE
                         ELSE nwIsGenerating
    /\ generatingChapter' = IF tasks[t].kind = "generate" THEN 0
                            ELSE generatingChapter
    /\ nwIsRefining' = IF tasks[t].kind = "refine" THEN FALSE ELSE nwIsRefining
    /\ tasks' = [tasks EXCEPT ![t].phase = "failed", ![t].fullContent = <<>>]

\* part_005:173-189, 327-343  fetch rejects, the status is not OK or the
\* response has no body.
StreamRefused(t) ==
    /\ tasks[t].phase = "fetch"
    /\ catchStreamError(t)
    /\ UNCHANGED <<chapters, storyChapters, selectedChapter, nwShowRefineInput,
                   typewriterBuffer, displayedContent, finalizeTimers,
                   finalizeCount>>
    /\ UNCHANGED stepVars

\* part_005:231-234, 382-385  a content event: fullContent += data.content;
\* setTypewriterBuffer(fullContent).
StreamFragment(t) ==
    /\ tasks[t].phase = "reading"
    /\ Len(tasks[t].fullContent) < Len(StreamedText)
    /\ LET fullContent ==
               Append(tasks[t].fullContent,
                      Fragment(t, Len(tasks[t].fullContent) + 1))
       IN /\ tasks' = [tasks EXCEPT ![t].fullContent = fullContent]
          /\ typewriterBuffer' = fullContent
    /\ UNCHANGED <<chapters, storyChapters, selectedChapter, nwIsGenerating,
                   generatingChapter, nwIsRefining, nwShowRefineInput, nwError,
                   displayedContent, finalizeTimers, finalizeCount>>
    /\ UNCHANGED stepVars

\* part_005:223-241, 245-249 (generate), 374-392, 396-403 (refine)  the
\* stream ends with an error event: the Error thrown at line 228 is caught by
\* the catch of line 238, which logs it and changes no state; the loop reads
\* on, finds the stream done, and the handler returns as after any stream.
StreamErrorEvent(t) ==
    /\ tasks[t].phase = "reading"
    /\ tasks' = [tasks EXCEPT ![t].phase = "erred", ![t].fullContent = <<>>]
    /\ nwShowRefineInput' = IF tasks[t].kind = "refine" THEN FALSE
                            ELSE nwShowRefineInput
    /\ UNCHANGED <<chapters, storyChapters, selectedChapter, nwIsGenerating,
                   generatingChapter, nwIsRefining, nwError, typewriterBuffer,
                   displayedContent, finalizeTimers, finalizeCount>>
    /\ UNCHANGED stepVars

\* part_005:210, 361  reader.read() rejects: the stream broke.
StreamBroken(t) ==
    /\ tasks[t].phase = "reading"
    /\ catchStreamError(t)
    /\ UNCHANGED <<chapters, storyChapters, selectedChapter, nwShowRefineInput,
                   typewriterBuffer, displayedContent, finalizeTimers,
                   finalizeCount>>
    /\ UNCHANGED stepVars

\* part_005:212, 245-249 (generate), 363, 396-403 (refine)  the stream is
\* done: generate returns, refine hides the instructions.  The locals of the
\* handler (fullContent) are gone when it returns or throws.
StreamClosed(t) ==
    /\ tasks[t].phase = "reading"
    /\ tasks' = [tasks EXCEPT ![t].phase = "closed", ![t].fullContent = <<>>]
    /\ nwShowRefineInput' = IF tasks[t].kind = "refine" THEN FALSE
                            ELSE nwShowRefineInput
    /\ UNCHANGED <<chapters, storyChapters, selectedChapter, nwIsGenerating,
                   generatingChapter, nwIsRefining, nwError, typewriterBuffer,
                   displayedContent, finalizeTimers, finalizeCount>>
    /\ UNCHANGED stepVars

\* part_005:105  the typewriter has typed everything.
TypewriterCaughtUp(newContent) ==
    Len(newContent) >= Len(typewriterBuffer) /\ Len(typewriterBuffer) > 0

\* part_005:87-105, 146-151  the typewriter timer: one more character is
\* displayed, and when the display has caught up with the buffer the callback
\* that completes the generation is scheduled, with the chapters and the
\* buffer of this render.
TypewriterTick ==
    /\ Len(typewriterBuffer) > Len(displayedContent)
    /\ LET newContent ==
               SubSeq(typewriterBuffer, 1, Len(displayedContent) + 1)
       IN /\ displayedContent' = newContent
          /\ finalizeTimers' =
                 IF TypewriterCaughtUp(newContent)
                 THEN Append(finalizeTimers,
                             [chapters |-> chapters,
                              typewriterBuffer |-> typewriterBuffer])
                 ELSE finalizeTimers
    /\ UNCHANGED <<chapters, storyChapters, selectedChapter, nwIsGenerating,
                   generatingChapter, nwIsRefining, nwShowRefineInput, nwError,
                   typewriterBuffer, tasks, finalizeCount>>
    /\ UNCHANGED stepVars

\* part_005:107-146  the scheduled callback: the chapters that were being
\* generated get the buffer as their content, the flags are cleared and the
\* parent's story gets the chapters that have content; the parent's update
\* makes the effect of lines 44-84 rebuild the chapter list.
FinalizeTimer ==
    /\ finalizeTimers # <<>>
    /\ LET closure == Head(finalizeTimers)
           finalChapters ==
               [k \in Chapters |->
                   IF closure.chapters[k].isGenerating
                   THEN [content |-> closure.typewriterBuffer,
                         isGenerating |-> FALSE]
                   ELSE closure.chapters[k]]
           updatedChaptersData == [k \in Chapters |-> finalChapters[k].content]
       IN /\ storyChapters' = updatedChaptersData
          /\ chapters' = DeriveChapters(updatedChaptersData)
          /\ finalizeCount' =
                 [finalizeCount EXCEPT ![TaskOf(closure.typewriterBuffer)] = @ + 1]
    /\ finalizeTimers' = Tail(finalizeTimers)
    /\ nwIsGenerating' = FALSE
    /\ generatingChapter' = 0
    /\ nwIsRefining' = FALSE
    /\ UNCHANGED <<selectedChapter, nwShowRefineInput, nwError,
                   typewriterBuffer, displayedContent, tasks>>
    /\ UNCHANGED stepVars

-----------------------------------------------------------------------------
(* The step workflow *)

-----------------------------------------------------------------------------
(* useAutoSave, as CharacterListEditor uses it *)

\* The data is a version number: 0 is the content as loaded, every change
\* of the list gives the next version.
NoDate == 0

\* useAutoSave.ts:25-48  CharacterListEditor passes a new saveFunction in every
\* render, so every render makes a new debouncedSave with a timer of its own
\* and runs the effect: while the data is dirty, a render adds a timer for
\* the data rendered; no timer is cleared.
Rendered(data, dirtyNow, pending) ==
    IF dirtyNow THEN pending \cup { data } ELSE pending

\* A call of saveFunction: the data it was given, and (to tell later whether
\* the data was changed meanwhile) the data of the editor when it began.
SaveCall(data) == [data |-> data, began |-> characters]

\* CharacterListEditor.tsx:39-43  handleCharactersChange: setCharacters,
\* markDirty (useAutoSave.ts:50-53)
HandleCharactersChange ==
    /\ characters < MaxEdits
    /\ characters' = characters + 1
    /\ isDirty' = TRUE
    /\ saveError' = "none"
    /\ timers' = Rendered(characters', TRUE, timers)
    /\ UNCHANGED <<isSaving, saves, savedData, lastSaved>>
    /\ UNCHANGED <<workflowVars, storeVars>>

\* useAutoSave.ts:11, 26-31  a timer runs out: the save of the data it was
\* set for begins.  The component renders again when a state changed.
TimerFires(data) ==
    /\ data \in timers
    /\ Len(saves) < MaxSaves
    /\ isSaving' = TRUE
    /\ saveError' = "none"
    /\ saves' = Append(saves, SaveCall(data))
    /\ timers' = IF isSaving /\ saveError = "none"
                 THEN timers \ { data }
                 ELSE Rendered(characters, isDirty, timers \ { data })
    /\ UNCHANGED <<characters, isDirty, savedData, lastSaved>>
    /\ UNCHANGED <<workflowVars, storeVars>>

\* CharacterListEditor.tsx:221-225 Save Now (shown when dirty, disabled while
\* saving) -> useAutoSave.saveNow (55-61)
SaveNow ==
    /\ isDirty /\ ~isSaving
    /\ Len(saves) < MaxSaves
    /\ isSaving' = TRUE
    /\ saveError' = "none"
    /\ saves' = Append(saves, SaveCall(characters))
    /\ timers' = Rendered(characters, isDirty, timers)
    /\ UNCHANGED <<characters, isDirty, savedData, lastSaved>>
    /\ UNCHANGED <<workflowVars, storeVars>>

RemoveAt(seq, k) ==
    [j \in 1..(Len(seq) - 1) |-> IF j < k THEN seq[j] ELSE seq[j + 1]]

\* useAutoSave.ts:31-33, 37-39 (61-63, 67-69)  saveFunction returned:
\* setLastSaved(new Date()); setIsDirty(false); setIsSaving(false).  Two dates
\* are enough to tell a new one from the one before.
SaveSucceeded(k) ==
    /\ k \in DOMAIN saves
    /\ savedData' = saves[k].data
    /\ lastSaved' = IF lastSaved = 1 THEN 2 ELSE 1
    /\ isDirty' = FALSE
    /\ isSaving' = FALSE
    /\ saves' = RemoveAt(saves, k)
    /\ UNCHANGED <<characters, saveError, timers>>
    /\ UNCHANGED <<workflowVars, storeVars>>

\* useAutoSave.ts:34-39 (64-69)  saveFunction threw: setError; setIsSaving(false)
SaveFailed(k) ==
    /\ k \in DOMAIN saves
    /\ saveError' = "Save failed"
    /\ isSaving' = FALSE
    /\ saves' = RemoveAt(saves, k)
    /\ timers' = IF ~isSaving /\ saveError = "Save failed"
                 THEN timers
                 ELSE Rendered(characters, isDirty, timers)
    /\ UNCHANGED <<characters, isDirty, savedData, lastSaved>>
    /\ UNCHANGED <<workflowVars, storeVars>>

\* useAutoSave.ts:20-23  the hook as mounted, on content that is saved.
AutoSaveIdle ==
    /\ characters = 0
    /\ isDirty = FALSE
    /\ isSaving = FALSE
    /\ saveError = "none"
    /\ timers = {}
    /\ saves = <<>>
    /\ savedData = 0
    /\ lastSaved = NoDate

-----------------------------------------------------------------------------
(* useTasksStore *)

TaskIds == { 1, 2 }
NoTaskEntry == "absent"
FinalStatuses == { "completed", "failed" }

\* The status a task ends with: task 1 completes, task 2 fails.
FinalStatus(taskId) == IF taskId = 1 THEN "completed" ELSE "failed"

\* The updates sent for a task: a new status, or progress only ("keep").
UpdatesOf(taskId) == { "running", FinalStatus(taskId), "keep" }

Called(op, taskId) ==
    /\ lastCall' = [op |-> op, taskId |-> taskId]
    /\ UNCHANGED <<workflowVars, saveVars>>

\* types/api.ts:124-128  newHistory = [...taskHistory, updatedTask]; shift()
\* when it is longer than 10
pushHistory(history, updatedTask) ==
    LET newHistory == Append(history, updatedTask) IN
    IF Len(newHistory) > HISTORY_LIMIT THEN Tail(newHistory) ELSE newHistory

\* types/api.ts:106-111  addTask (useTaskManager.startTask adds it pending)
addTask(taskId) ==
    /\ activeTasks' = [activeTasks EXCEPT ![taskId] = "pending"]
    /\ Called("addTask", taskId)
    /\ UNCHANGED taskHistory

\* types/api.ts:113-138  updateTask
updateTask(taskId, update) ==
    /\ Called("updateTask", taskId)
    /\ LET existingTask == activeTasks[taskId]
           updatedTask == IF update = "keep" THEN existingTask ELSE update
       IN  IF existingTask # NoTaskEntry
           THEN /\ activeTasks' = [activeTasks EXCEPT ![taskId] = updatedTask]
                /\ IF updatedTask \in FinalStatuses
                   THEN taskHistory' =
                            pushHistory(taskHistory,
                                        [task_id |-> taskId,
                                         status |-> updatedTask])
                   ELSE UNCHANGED taskHistory
           ELSE UNCHANGED <<activeTasks, taskHistory>>

\* types/api.ts:140-145  removeTask
removeTask(taskId) ==
    /\ activeTasks' = [activeTasks EXCEPT ![taskId] = NoTaskEntry]
    /\ Called("removeTask", taskId)
    /\ UNCHANGED taskHistory

\* types/api.ts:147  clearHistory
clearHistory ==
    /\ taskHistory' = <<>>
    /\ Called("clearHistory", 0)
    /\ UNCHANGED activeTasks

\* types/api.ts:103-104  the store as created
TaskStoreEmpty ==
    /\ activeTasks = [id \in TaskIds |-> NoTaskEntry]
    /\ taskHistory = <<>>
    /\ lastCall = [op |-> "none", taskId |-> 0]

\* Neither component has been touched.
AsideIdle == AutoSaveIdle /\ TaskStoreEmpty

\* useHashRouter.ts:12-37  parseHash: '#/stories', '#/story/{id}' and
\* '#/story/{id}/step/{n}'; step 0 stands for a route without a step.
StoriesRoute == [path |-> "stories", storyId |-> "none", step |-> 0]
StoryRoute(storyId) == [path |-> "story", storyId |-> storyId, step |-> 0]
StoryStepRoute(storyId, step) ==
    [path |-> "story-step", storyId |-> storyId, step |-> step]

NoLoad == [storyId |-> "none", step |-> 0]

\* App.tsx:43-66  the story was opened by its address '#/story/{id}': the
\* route effect has loaded it and nothing is being fetched.
OpenedByAddress(story) ==
    /\ currentRoute = StoryRoute(story.story_id)
    /\ loadFromRoute = NoLoad

\* A story as the backend holds it between requests: accepted text in every
\* step below current_step, nothing above it, and the current step empty,
\* blank or generated (step 10 has no generation endpoint).
StoryAt(cs, c) ==
    [story_id |-> "A",
     current_step |-> cs,
     steps |-> [s \in Steps |-> IF s < cs THEN <<"a">>
                                ELSE IF s = cs THEN c ELSE NoContent]]

LoadedStories ==
    { StoryAt(cs, c) : cs \in 1..9, c \in GenContents \cup {NoContent} }
        \cup { StoryAt(MAX_STEPS, NoContent) }

\* A story whose first n chapters are written.
ChaptersWritten(n) ==
    [k \in Chapters |-> IF k <= n THEN LoadedChapter ELSE NoContent]

\* The chapter editor before it is opened.
EditorClosed ==
    /\ storyChapters = [k \in Chapters |-> NoContent]
    /\ chapters = DeriveChapters(storyChapters)
    /\ selectedChapter = 0
    /\ nwIsGenerating = FALSE
    /\ generatingChapter = 0
    /\ nwIsRefining = FALSE
    /\ nwShowRefineInput = FALSE
    /\ nwError = "none"
    /\ typewriterBuffer = <<>>
    /\ displayedContent = <<>>
    /\ finalizeTimers = <<>>
    /\ tasks = [t \in Tasks |-> NoTask]
    /\ finalizeCount = [t \in Tasks |-> 0]

\* App.tsx:43-66  a story is loaded by the route effect:
\* setSelectedStory(fullStory); setCurrentStep(step || fullStory.current_step)
Init ==
    /\ server \in LoadedStories
    /\ serverChapters = [k \in Chapters |-> NoContent]
    /\ selectedStory = server
    /\ currentStep = server.current_step
    /\ clicks = 0
    /\ isGenerating = FALSE
    /\ isRefining = FALSE
    /\ showRefineInput = FALSE
    /\ error = "none"
    /\ reqs = [i \in Slots |-> NoReq]
    /\ EditorClosed
    /\ OpenedByAddress(server)
    /\ AsideIdle

Next ==
    \/ ClickGenerate
    \/ ClickRegenerate
    \/ ClickRefine
    \/ RefineCancel
    \/ RefineSubmit
    \/ ClickAccept
    \/ ClickRollback
    \/ \E s \in Steps : StepChange(s)
    \/ DismissError
    \/ \E i \in Slots : ServerRefineRollback(i)
    \/ \E i \in Slots : DeliverGenerate(i)
    \/ \E i \in Slots : DeliverRefine(i)
    \/ \E i \in Slots : DeliverAdvance(i)
    \/ \E i \in Slots : DeliverRollback(i)

Spec == Init /\ [][Next]_vars

\* A story that has reached step 10 and has chapters written is picked from
\* the list; the chapter editor is not running.
DraftedInit ==
    /\ server = StoryAt(MAX_STEPS, NoContent)
    /\ serverChapters \in { ChaptersWritten(n) : n \in 1..NumChapters }
    /\ selectedStory = server
    /\ currentStep = server.current_step
    /\ clicks = 0
    /\ isGenerating = FALSE
    /\ isRefining = FALSE
    /\ showRefineInput = FALSE
    /\ error = "none"
    /\ reqs = [i \in Slots |-> NoReq]
    /\ storyChapters = serverChapters
    /\ chapters = DeriveChapters(storyChapters)
    /\ selectedChapter = 0
    /\ nwIsGenerating = FALSE
    /\ generatingChapter = 0
    /\ nwIsRefining = FALSE
    /\ nwShowRefineInput = FALSE
    /\ nwError = "none"
    /\ typewriterBuffer = <<>>
    /\ displayedContent = <<>>
    /\ finalizeTimers = <<>>
    /\ tasks = [t \in Tasks |-> NoTask]
    /\ finalizeCount = [t \in Tasks |-> 0]
    /\ OpenedByAddress(server)
    /\ AsideIdle

\* The step workflow on a story with chapters.
DraftedSpec == DraftedInit /\ [][Next]_vars

-----------------------------------------------------------------------------
(* The hash router and the selection of a story *)

StoryIds == { "A", "B" }

\* App.tsx:14  useState<Story | null>(null)
NoStory ==
    [story_id |-> "none", current_step |-> 0,
     steps |-> [s \in Steps |-> NoContent]]

\* useStories.ts:9-21  the list fetched when the app is mounted; it is fetched
\* again only after a story is created or deleted.
stories ==
    [id \in StoryIds |->
        IF id = "A" THEN StoryAt(2, <<"a">>)
        ELSE [StoryAt(3, <<"a">>) EXCEPT !.story_id = "B"]]

\* The step parameters a user types into the address bar.
TypedSteps == { 3 }

TypedRoutes ==
    { StoryRoute(id) : id \in StoryIds }
        \cup { StoryStepRoute(id, n) : id \in StoryIds, n \in TypedSteps }

\* GET /api/stories/{id}.  The user works on story A only; story B is opened
\* and read, so the backend holds it as listed.
StoredStory(id) == IF id = "A" THEN server ELSE stories[id]
StoredChapters(id) ==
    IF id = "A" THEN serverChapters ELSE [k \in Chapters |-> NoContent]

\* App.tsx:243, 266  the story page is rendered when a story is selected and
\* no story is being loaded.
StoryShown == selectedStory # NoStory /\ loadFromRoute = NoLoad

\* App.tsx:44  the route names a story
RouteNamesStory == currentRoute.path \in { "story", "story-step" }

\* App.tsx:70-73  on the stories route the selection is cleared
ClearSelectionDue == ~RouteNamesStory /\ selectedStory # NoStory

\* App.tsx:49-52  the story of the route is not the selected one (one fetch at
\* a time in this model)
LoadDue ==
    /\ RouteNamesStory
    /\ selectedStory.story_id # currentRoute.storyId
    /\ loadFromRoute = NoLoad

\* App.tsx:66-69  the story is loaded and the route has another step
StepDue ==
    /\ RouteNamesStory
    /\ selectedStory.story_id = currentRoute.storyId
    /\ currentRoute.step # 0
    /\ currentRoute.step # currentStep

\* The route effect has work to do.  React runs it before the next event is
\* handled.
EffectPending == ClearSelectionDue \/ LoadDue \/ StepDue

\* App.tsx:70-73  setSelectedStory(null); StepContent is unmounted.
RouteClearsSelection ==
    /\ ClearSelectionDue
    /\ selectedStory' = NoStory
    /\ showRefineInput' = FALSE
    /\ UNCHANGED <<server, serverChapters, currentStep, isGenerating,
                   isRefining, error, reqs, clicks, routeVars>>
    /\ UNCHANGED <<chapters, storyChapters>>
    /\ UNCHANGED editorVars

\* App.tsx:49-56  setLoadingStory(true); setError(null); the fetch starts and
\* the loading screen replaces the page.
RouteStartsLoad ==
    /\ LoadDue
    /\ loadFromRoute' =
           [storyId |-> currentRoute.storyId, step |-> currentRoute.step]
    /\ error' = "none"
    /\ showRefineInput' = FALSE
    /\ UNCHANGED <<server, serverChapters, selectedStory, currentStep,
                   isGenerating, isRefining, reqs, clicks, currentRoute>>
    /\ UNCHANGED <<chapters, storyChapters, nwVars, asideVars>>

\* App.tsx:66-69  setCurrentStep(step)
RouteSetsStep ==
    /\ StepDue
    /\ currentStep' = currentRoute.step
    /\ UNCHANGED <<server, serverChapters, selectedStory, isGenerating,
                   isRefining, showRefineInput, error, reqs, clicks>>
    /\ UNCHANGED chapterVars

\* App.tsx:56-58  the fetch returned: setSelectedStory(fullStory);
\* setCurrentStep(step || fullStory.current_step)
LoadDone ==
    /\ loadFromRoute # NoLoad
    /\ ~EffectPending
    /\ LET fullStory == StoredStory(loadFromRoute.storyId) IN
          /\ selectedStory' = fullStory
          /\ InstallChapters(StoredChapters(loadFromRoute.storyId))
          /\ currentStep' = IF loadFromRoute.step # 0
                            THEN loadFromRoute.step
                            ELSE fullStory.current_step
    /\ loadFromRoute' = NoLoad
    /\ UNCHANGED <<server, serverChapters, isGenerating, isRefining,
                   showRefineInput, error, reqs, clicks, currentRoute>>
    /\ UNCHANGED <<nwVars, asideVars>>

\* App.tsx:59-63  the fetch failed: setError(err.message);
\* navigate('#/stories')
LoadFailed ==
    /\ loadFromRoute # NoLoad
    /\ ~EffectPending
    /\ error' = "Failed to fetch story details"
    /\ currentRoute' = StoriesRoute
    /\ loadFromRoute' = NoLoad
    /\ UNCHANGED <<server, serverChapters, selectedStory, currentStep,
                   isGenerating, isRefining, showRefineInput, reqs, clicks>>
    /\ UNCHANGED <<chapters, storyChapters, nwVars, asideVars>>

\* useHashRouter.ts:40-53  navigate sets the hash; the hashchange listener
\* parses it into currentRoute.
navigate(route) ==
    /\ currentRoute' = route
    /\ UNCHANGED loadFromRoute

\* The user types an address.
HashChange(route) ==
    /\ ~EffectPending
    /\ route # currentRoute
    /\ navigate(route)
    /\ UNCHANGED <<server, serverChapters, selectedStory, currentStep,
                   isGenerating, isRefining, showRefineInput, error, reqs,
                   clicks>>
    /\ UNCHANGED <<chapters, storyChapters, nwVars, asideVars>>

\* App.tsx:283-288  Back to Stories (and the title link, App.tsx:249)
BackToStories ==
    /\ StoryShown
    /\ HashChange(StoriesRoute)

\* StoryList -> App.handleSelectStory (132-135): the list is shown when no
\* story is selected; the step of the address is the one the list holds.
SelectStory(id) ==
    /\ selectedStory = NoStory
    /\ loadFromRoute = NoLoad
    /\ HashChange(StoryStepRoute(id, stories[id].current_step))

\* The story page of story A is shown and the route effect has run.
OnStoryPage ==
    /\ StoryShown
    /\ ~EffectPending
    /\ selectedStory.story_id = "A"

\* StepNavigation.tsx:37-53, StepContent.tsx:300-310 -> App.handleStepChange
\* (109-118): setCurrentStep(stepNum); navigate to the step's address.
PageStepChange(stepNum) ==
    /\ OnStoryPage
    /\ stepNum <= selectedStory.current_step        \* canAccess
    /\ stepNum # currentStep
    /\ currentStep' = stepNum
    /\ navigate(StoryStepRoute(selectedStory.story_id, stepNum))
    /\ UNCHANGED <<server, serverChapters, selectedStory, isGenerating,
                   isRefining, showRefineInput, error, reqs, clicks>>
    /\ UNCHANGED <<chapters, storyChapters, nwVars, asideVars>>

\* The buttons of the story page (StepContent.tsx), pressed while it is shown.
PageGenerate == OnStoryPage /\ ClickGenerate
PageRegenerate == OnStoryPage /\ ClickRegenerate
PageRefine == OnStoryPage /\ ClickRefine
PageRefineCancel == OnStoryPage /\ RefineCancel
PageRefineSubmit == OnStoryPage /\ RefineSubmit
PageAccept == OnStoryPage /\ ClickAccept
PageRollback == OnStoryPage /\ ClickRollback

\* The replies of the step workflow, whichever page is shown.
ReplyGenerate(i) == ~EffectPending /\ DeliverGenerate(i)
ReplyRefine(i) == ~EffectPending /\ DeliverRefine(i)
ReplyRollback(i) == ~EffectPending /\ DeliverRollback(i)

\* App.handleAdvanceStory after the await (lines 166-173), with the address
\* that handleStepChange writes for the story then selected.
ReplyAdvance(i) ==
    /\ ~EffectPending
    /\ reqs[i].kind = "advance"
    /\ \E r \in ServerAdvance(server) \cup {HttpError(server)} :
          /\ server' = r.story
          /\ serverChapters' = serverChapters
          /\ IF r.ok
             THEN /\ selectedStory' = r.story
                  /\ InstallChapters(serverChapters)
                  /\ currentStep' = r.story.current_step
                  /\ IF selectedStory # NoStory
                     THEN navigate(StoryStepRoute(selectedStory.story_id,
                                                  r.story.current_step))
                     ELSE UNCHANGED routeVars
                  /\ generateContent(i, r.story.current_step)
                  /\ UNCHANGED error
             ELSE /\ error' = "Failed to advance story"
                  /\ UNCHANGED <<chapters, storyChapters, routeVars>>
                  /\ reqs' = [reqs EXCEPT ![i] = NoReq]
                  /\ UNCHANGED <<selectedStory, currentStep, isGenerating>>
    /\ UNCHANGED <<isRefining, showRefineInput, clicks>>
    /\ UNCHANGED <<nwVars, asideVars>>

\* The list shows stories A and B; A is opened from it at its current step.
RouteInit ==
    /\ server = stories["A"]
    /\ serverChapters = [k \in Chapters |-> NoContent]
    /\ selectedStory = server
    /\ currentStep = server.current_step
    /\ clicks = 0
    /\ isGenerating = FALSE
    /\ isRefining = FALSE
    /\ showRefineInput = FALSE
    /\ error = "none"
    /\ reqs = [i \in Slots |-> NoReq]
    /\ EditorClosed
    /\ currentRoute = StoryStepRoute("A", server.current_step)
    /\ loadFromRoute = NoLoad
    /\ AsideIdle

RouteNext ==
    \/ RouteClearsSelection
    \/ RouteStartsLoad
    \/ RouteSetsStep
    \/ LoadDone
    \/ LoadFailed
    \/ \E route \in TypedRoutes : HashChange(route)
    \/ BackToStories
    \/ \E id \in StoryIds : SelectStory(id)
    \/ \E s \in Steps : PageStepChange(s)
    \/ PageGenerate
    \/ PageRegenerate
    \/ PageRefine
    \/ PageRefineCancel
    \/ PageRefineSubmit
    \/ PageAccept
    \/ PageRollback
    \/ \E i \in Slots : ServerRefineRollback(i)
    \/ \E i \in Slots : ReplyGenerate(i)
    \/ \E i \in Slots : ReplyRefine(i)
    \/ \E i \in Slots : ReplyAdvance(i)
    \/ \E i \in Slots : ReplyRollback(i)

\* The step workflow with the router: stories are opened, left and changed.
RouteSpec == RouteInit /\ [][RouteNext]_vars

-----------------------------------------------------------------------------
(* The components beside the workflow, each on its own *)

\* A story at step 3, the step of the character list, is open and nothing of
\* the workflow is running.
AsideInit ==
    /\ server = StoryAt(3, <<"a">>)
    /\ serverChapters = [k \in Chapters |-> NoContent]
    /\ selectedStory = server
    /\ currentStep = server.current_step
    /\ clicks = 0
    /\ isGenerating = FALSE
    /\ isRefining = FALSE
    /\ showRefineInput = FALSE
    /\ error = "none"
    /\ reqs = [i \in Slots |-> NoReq]
    /\ EditorClosed
    /\ OpenedByAddress(server)
    /\ AsideIdle

AutoSaveNext ==
    \/ HandleCharactersChange
    \/ \E data \in 1..MaxEdits : TimerFires(data)
    \/ SaveNow
    \/ \E k \in 1..MaxSaves : SaveSucceeded(k)
    \/ \E k \in 1..MaxSaves : SaveFailed(k)

AutoSaveSpec == AsideInit /\ [][AutoSaveNext]_vars

TaskStoreNext ==
    \/ \E taskId \in TaskIds : addTask(taskId)
    \/ \E taskId \in TaskIds : \E update \in UpdatesOf(taskId) :
          updateTask(taskId, update)
    \/ \E taskId \in TaskIds : removeTask(taskId)
    \/ clearHistory

TaskStoreSpec == AsideInit /\ [][TaskStoreNext]_vars

-----------------------------------------------------------------------------
(* The chapter editor *)

\* The editor is opened on a story at step 10 with its scenes and the
\* chapters written so far; no request of the step workflow is in flight.
ChapterInit ==
    /\ server = StoryAt(MAX_STEPS, NoContent)
    /\ selectedStory = server
    /\ currentStep = MAX_STEPS
    /\ clicks = 0
    /\ isGenerating = FALSE
    /\ isRefining = FALSE
    /\ showRefineInput = FALSE
    /\ error = "none"
    /\ reqs = [i \in Slots |-> NoReq]
    /\ storyChapters \in { ChaptersWritten(n) : n \in 0..NumChapters }
    /\ serverChapters = storyChapters    \* read by the step workflow only
    /\ OpenedByAddress(server)
    /\ AsideIdle
    /\ chapters = DeriveChapters(storyChapters)
    /\ selectedChapter = 0
    /\ nwIsGenerating = FALSE
    /\ generatingChapter = 0
    /\ nwIsRefining = FALSE
    /\ nwShowRefineInput = FALSE
    /\ nwError = "none"
    /\ typewriterBuffer = <<>>
    /\ displayedContent = <<>>
    /\ finalizeTimers = <<>>
    /\ tasks = [t \in Tasks |-> NoTask]
    /\ finalizeCount = [t \in Tasks |-> 0]

ChapterNext ==
    \/ \E k \in Chapters : SelectChapter(k)
    \/ \E k \in Chapters : ClickGenerateChapter(k)
    \/ ClickGenerateSelected
    \/ ClickRegenerateChapter
    \/ ClickRefineChapter
    \/ SubmitRefineChapter
    \/ CancelRefineChapter
    \/ \E t \in Tasks : StreamOpened(t)
    \/ \E t \in Tasks : StreamRefused(t)
    \/ \E t \in Tasks : StreamFragment(t)
    \/ \E t \in Tasks : StreamErrorEvent(t)
    \/ \E t \in Tasks : StreamBroken(t)
    \/ \E t \in Tasks : StreamClosed(t)
    \/ TypewriterTick
    \/ FinalizeTimer

ChapterSpec == ChapterInit /\ [][ChapterNext]_vars

\* The backend answers every request and ends every stream (by closing it,
\* by an error event or by breaking it); the browser runs every timer that
\* is due.  Nothing is assumed of the user.
ChapterFairness ==
    /\ \A t \in Tasks : WF_vars(StreamOpened(t) \/ StreamRefused(t))
    /\ \A t \in Tasks :
          WF_vars(StreamClosed(t) \/ StreamErrorEvent(t) \/ StreamBroken(t))
    /\ WF_vars(TypewriterTick)
    /\ WF_vars(FinalizeTimer)

ChapterFairSpec == ChapterSpec /\ ChapterFairness

-----------------------------------------------------------------------------
(* Properties of the step workflow *)

\* Requests of the step workflow that are a generation or a refinement.
ActiveGenerations == { i \in Slots : reqs[i].kind \in {"generate", "refine"} }

\* A generate request is sent in this step (by a button or by the
\* auto-generation that follows Accept & Continue).
GenerateIssued ==
    \E i \in Slots : reqs[i].kind # "generate" /\ reqs'[i].kind = "generate"

\* C1 (claim as stated): whenever a generation or refinement is still active
\* for the story, another Generate is rejected: no new generate request starts
\* and the active requests stay as they are.
C1_SingleFlightRejection ==
    [][ActiveGenerations # {} =>
          ~GenerateIssued]_vars

\* C2 (claim as stated): in every reachable state at most one generation or
\* refinement request is in flight for the story.
C2_AtMostOneGeneration == Cardinality(ActiveGenerations) <= 1

\* The smallest step number that has no content, or N when every step has.
FirstEmptyStep(story) ==
    IF \E s \in Steps : story.steps[s] = NoContent
    THEN CHOOSE s \in Steps :
            /\ story.steps[s] = NoContent
            /\ \A t \in Steps : story.steps[t] = NoContent => s <= t
    ELSE MAX_STEPS

C7_CascadeComplete ==
    [][\A i \in Slots :
          /\ (/\ reqs[i].kind = "refine" /\ reqs[i].phase = "sent"
              /\ reqs'[i].kind = "refine" /\ reqs'[i].phase = "rolledback")
               => /\ reqs'[i].before = server.current_step
                  /\ \A s \in Steps :
                        (reqs[i].step < s /\ s <= server.current_step)
                            => server'.steps[s] = NoContent
                  /\ server'.current_step = reqs[i].step
          /\ (/\ reqs[i].kind = "refine" /\ reqs'[i] = NoReq
              /\ server'.steps[reqs[i].step] # server.steps[reqs[i].step])
               => reqs[i].phase = "rolledback"]_vars

\* C7 witness: the cascade delete of a refine below the frontier is done and
\* regeneration has not begun.
C7_Witness ==
    \E i \in Slots :
        /\ reqs[i].kind = "refine" /\ reqs[i].phase = "rolledback"
        /\ reqs[i].step + 1 < reqs[i].before
        /\ server.current_step = reqs[i].step

-----------------------------------------------------------------------------
(* Properties of the chapter editor *)

\* The callback that completes a generation runs for task t in this step.
Finalized(t) == finalizeCount'[t] = finalizeCount[t] + 1

\* Task t has succeeded and its playback is over: its stream is closed
\* without an error event,
\* nothing is left to type and no callback is pending.
PlayedOut(t) ==
    /\ tasks[t].phase = "closed"
    /\ Len(typewriterBuffer) <= Len(displayedContent)
    /\ finalizeTimers = <<>>

\* C3 (claim as stated): for one streamed task the finalize action (chapter
\* content written and reported to the parent story) happens exactly once:
\* never more than once, and once when the task has been played out.
C3_FinalizeExactlyOnce ==
    \A t \in Tasks :
        /\ finalizeCount[t] <= 1
        /\ PlayedOut(t) => finalizeCount[t] = 1

\* C4 (claim as stated): finalize is performed for a task only in a state
\* where its stream is closed and the displayed text has the length of the
\* received text.
C4_FinalizeOnlyAfterClose ==
    [][\A t \in Tasks :
          Finalized(t) =>
              /\ tasks[t].phase = "closed"
              /\ Len(displayedContent) = Len(typewriterBuffer)]_vars

\* A request that generates chapter k is sent in this step.
GenerateChapterStarted(k) ==
    \E t \in Tasks :
        /\ tasks[t].phase = "idle" /\ tasks'[t].phase = "fetch"
        /\ tasks'[t].kind = "generate" /\ tasks'[t].chapter = k

\* A request that refines chapter k is sent in this step.
RefineChapterStarted(k) ==
    \E t \in Tasks :
        /\ tasks[t].phase = "idle" /\ tasks'[t].phase = "fetch"
        /\ tasks'[t].kind = "refine" /\ tasks'[t].chapter = k

\* C8 (claim as stated): through every entry point, a generation of chapter
\* k > 1 starts only if every chapter 1..k-1 has content.
C8_GenerateInOrder ==
    [][\A k \in Chapters :
          GenerateChapterStarted(k) =>
              \A j \in Chapters : j < k => chapters[j].content # NoContent]_vars

\* The chapters that have content are chapters 1..n for some n.
IsPrefix(contents) ==
    \A k \in Chapters :
        contents[k] # NoContent =>
            \A j \in Chapters : j < k => contents[j] # NoContent

\* C9 (claim as stated): in every reachable state, in the editor's chapter
\* list and in the parent's story, chapter k has content only if all
\* chapters 1..k-1 have content.
C9_ChapterPrefix ==
    /\ IsPrefix([k \in Chapters |-> chapters[k].content])
    /\ IsPrefix(storyChapters)

\* C10: a refinement request is sent for chapter k only if k is the
\* highest-numbered chapter that has content; for any other chapter no
\* request is sent (and so no chapter changes).
C10_RefineOnlyFrontierChapter ==
    [][\A k \in Chapters :
          RefineChapterStarted(k) =>
              /\ chapters[k].content # NoContent
              /\ \A j \in Chapters : j > k => chapters[j].content = NoContent]_vars

\* C10 witness: the refinement of chapter 2 has been requested while chapters
\* 1 and 2 are the chapters that have content.
C10_Witness ==
    /\ \E t \in Tasks :
          /\ tasks[t].kind = "refine" /\ tasks[t].phase = "fetch"
          /\ tasks[t].chapter = 2
    /\ chapters[1].content # NoContent
    /\ chapters[2].content # NoContent
    /\ \A j \in Chapters : j > 2 => chapters[j].content = NoContent

\* The regeneration of chapter k is requested in this step (Regenerate is
\* offered for a chapter that has content).
RegenerateChapterStarted(k) ==
    GenerateChapterStarted(k) /\ chapters[k].content # NoContent

\* Task t regenerates its chapter.
IsRegeneration(t) == tasks[t].kind = "generate" /\ tasks[t].prior # NoContent

\* C11 (claim as stated): a confirmed RegenerateChapter(k) empties every
\* chapter j > k when it sends its request and leaves the chapters j < k as
\* they are, and when the regeneration is finalized the parent's story has
\* no content for any chapter j > k.
C11_RegenerateCascade ==
    [][/\ \A k \in Chapters :
            RegenerateChapterStarted(k) =>
                \A j \in Chapters :
                    /\ j > k => chapters'[j].content = NoContent
                    /\ j < k => chapters'[j] = chapters[j]
       /\ \A t \in Tasks :
            (IsRegeneration(t) /\ Finalized(t)) =>
                \A j \in Chapters :
                    j > tasks[t].chapter => storyChapters'[j] = NoContent]_vars

-----------------------------------------------------------------------------
(* Properties of the step workflow, continued *)

\* C12: Rollback(story, t) with t < current_step, when its reply is a
\* success, has removed the content of every step s > t, set current_step to
\* t and left the steps 1..t as they were, and the frontend holds that story
\* and shows step t; a failed request changes no story.
C12_RollbackCascade ==
    [][\A i \in Slots :
          (/\ reqs[i].kind = "rollback" /\ reqs'[i] = NoReq
           /\ reqs[i].step < server.current_step)
            => IF server' # server
               THEN /\ server'.current_step = reqs[i].step
                    /\ \A s \in Steps :
                          /\ s > reqs[i].step => server'.steps[s] = NoContent
                          /\ s <= reqs[i].step =>
                                server'.steps[s] = server.steps[s]
                    /\ selectedStory' = server'
                    /\ currentStep' = reqs[i].step
               ELSE /\ selectedStory' = selectedStory
                    /\ error' = "Failed to rollback story"]_vars

\* C12 witness: a rollback to a step below a refinement that was in flight
\* has been done: the refinement finds its step beyond the frontier, and
\* nothing is left above the new frontier.
C12_Witness ==
    /\ \E i \in Slots :
          /\ reqs[i].kind = "refine" /\ reqs[i].phase = "rejected"
          /\ \A j \in Slots : j # i => reqs[j] = NoReq
    /\ isRefining
    /\ selectedStory = server
    /\ currentStep = server.current_step
    /\ \A s \in Steps : s > server.current_step => server.steps[s] = NoContent

\* An Accept & Continue request is sent in this step.
AdvanceIssued ==
    \E i \in Slots : reqs[i] = NoReq /\ reqs'[i].kind = "advance"

\* C13: Advance is requested only for a current step whose content is
\* non-empty after trimming; it succeeds only when the stored content of the
\* current step is non-empty after trimming, and then current_step grows by
\* exactly 1 and no step content changes; otherwise it fails, current_step
\* stays (in the backend and in the frontend) and the error is shown.
C13_AdvanceNeedsContent ==
    [][/\ AdvanceIssued =>
            hasContent(selectedStory, selectedStory.current_step)
       /\ \A i \in Slots :
            (reqs[i].kind = "advance" /\ reqs'[i] # reqs[i]) =>
                IF server' # server
                THEN /\ hasContent(server, server.current_step)
                     /\ server'.current_step = server.current_step + 1
                     /\ server'.steps = server.steps
                     /\ selectedStory' = server'
                ELSE /\ selectedStory' = selectedStory
                     /\ error' = "Failed to advance story"]_vars

\* C13 witness: Accept & Continue was clicked while the step had content, the
\* step was generated again and came back blank, and the advance has failed.
C13_Witness ==
    /\ error = "Failed to advance story"
    /\ server.steps[server.current_step] # NoContent
    /\ ~hasContent(server, server.current_step)
    /\ selectedStory = server
    /\ FreeSlots = Slots

-----------------------------------------------------------------------------
(* Properties of the chapter editor, continued *)

\* Task t has ended in error: the request failed, the stream broke, or the
\* stream delivered an error event.
EndedInError(t) == tasks[t].phase \in {"failed", "erred"}

\* The text is (a prefix of) what the stream of task t delivered.
ReceivedFrom(t, text) == text # NoContent /\ TaskOf(text) = t

\* C14 (claim as stated): once a generation or refinement has ended in error
\* the stored chapters stay as they are: no text received by that task is
\* written to a chapter of the parent's story or of the editor.
C14_NoPartialCommit ==
    [][\A t \in Tasks :
          EndedInError(t) =>
              \A k \in Chapters :
                  /\ ReceivedFrom(t, storyChapters'[k]) =>
                         ReceivedFrom(t, storyChapters[k])
                  /\ ReceivedFrom(t, chapters'[k].content) =>
                         ReceivedFrom(t, chapters[k].content)]_vars

\* C15 (claim as stated): when the stream of task t delivers an error event
\* the error is set, and from then on the playback of its text has stopped:
\* no further character of it is displayed and it is not finalized.
C15_ErrorEventStopsPlayback ==
    [][\A t \in Tasks :
          /\ (tasks[t].phase = "reading" /\ tasks'[t].phase = "erred") =>
                nwError' # "none"
          /\ (tasks[t].phase = "erred" /\ ReceivedFrom(t, typewriterBuffer)) =>
                /\ Len(displayedContent') <= Len(displayedContent)
                /\ finalizeCount'[t] = finalizeCount[t]]_vars

\* A generation or refinement of a chapter is under way, as the editor's
\* flags tell it.
ChapterBusy ==
    \/ nwIsGenerating
    \/ nwIsRefining
    \/ generatingChapter # 0
    \/ \E k \in Chapters : chapters[k].isGenerating

\* C16 (claim as stated): every started generation or refinement of a
\* chapter eventually returns the editor to idle, with every generating and
\* refining flag cleared, whatever the outcome of its stream.
C16_EventuallyIdle == ChapterBusy ~> ~ChapterBusy


\* A request of the chapter editor is being answered or its stream is being read.
StreamInFlight == \E u \in Tasks : tasks[u].phase \in {"fetch", "reading"}

\* The precondition of generating chapter k: the chapters before it are
\* written and no other generation or refinement is in flight.
MayGenerateChapter(k) ==
    /\ \A j \in Chapters : j < k => chapters[j].content # NoContent
    /\ ~StreamInFlight

\* The precondition of refining chapter k: it is the last written chapter
\* and no other generation or refinement is in flight.
MayRefineChapter(k) ==
    /\ chapters[k].content # NoContent
    /\ \A j \in Chapters : j > k => chapters[j].content = NoContent
    /\ ~StreamInFlight

\* C18 (claim as stated): an operation of the chapter editor whose
\* precondition is violated (a chapter generated out of order or while
\* another request is in flight, a refinement of a chapter that is not the
\* last written one or while another request is in flight) is rejected
\* before any state changes and before any request is sent: every step that
\* changes the state and sends a request does so with its precondition met.
C18_RejectedChangesNothing ==
    [][\A k \in Chapters :
          /\ GenerateChapterStarted(k) => MayGenerateChapter(k)
          /\ RefineChapterStarted(k) => MayRefineChapter(k)]_vars


-----------------------------------------------------------------------------
(* Properties of the step workflow: no step is skipped *)

\* A generation or refinement request whose step lies more than one step
\* beyond the backend's frontier.
TooFarAhead(i) ==
    /\ reqs[i].kind \in {"generate", "refine"}
    /\ reqs[i].step > server.current_step + 1

\* C19: no generate request is sent for a step greater than current_step + 1,
\* no content is stored (in the backend or in the story the frontend holds)
\* for a step greater than current_step + 1, and a request that reaches the
\* backend for such a step fails: the stored story and the story the frontend
\* holds stay as they are, and an error is shown when the request ends.
C19_NoSkipCommit ==
    [][/\ \A i \in Slots :
            (reqs[i].kind # "generate" /\ reqs'[i].kind = "generate") =>
                reqs'[i].step <= selectedStory.current_step + 1
       /\ server'.steps # server.steps =>
            \A s \in Steps :
               (server'.steps[s] # server.steps[s] /\ server'.steps[s] # NoContent) =>
                   s <= server.current_step + 1
       /\ selectedStory'.steps # selectedStory.steps =>
            \A s \in Steps :
               (/\ selectedStory'.steps[s] # selectedStory.steps[s]
                /\ selectedStory'.steps[s] # NoContent) =>
                   s <= selectedStory.current_step + 1
       /\ \A i \in Slots :
            (TooFarAhead(i) /\ reqs'[i] # reqs[i]) =>
                /\ server' = server
                /\ selectedStory' = selectedStory
                /\ reqs'[i] = NoReq => error' # "none"]_vars

\* C19 witness: a generation of the frontier step was requested while a
\* rollback was in flight; the rollback has been answered, so the request now
\* targets a step more than one step beyond the frontier of the backend and
\* of the story the frontend holds.
C19_Witness ==
    /\ \E i \in Slots : reqs[i].kind = "generate" /\ TooFarAhead(i)
    /\ isGenerating
    /\ selectedStory = server
    /\ \A s \in Steps : s > server.current_step => server.steps[s] = NoContent


-----------------------------------------------------------------------------
(* Properties of the chapter editor: the streamed text *)

\* The first n content events of the stream of task t, in arrival order.
Delivered(t, n) == [j \in 1..n |-> Fragment(t, j)]

\* The stream of task t has closed without an error, the text it delivered
\* is the text in the typewriter, all of it has been displayed, no
\* completion callback is pending and no request was started after it.
StreamPlayedOut(t) ==
    /\ tasks[t].phase = "closed"
    /\ \A u \in Tasks : u > t => tasks[u].phase = "idle"
    /\ ReceivedFrom(t, typewriterBuffer)
    /\ displayedContent = typewriterBuffer
    /\ finalizeTimers = <<>>

\* C20 (claim as stated): while the stream of a task is read, the received
\* text is the concatenation of the fragments received so far, in arrival
\* order; and once a stream that closed without an error has been played
\* out, the content of its chapter, in the editor and in the parent's story,
\* is the concatenation of all its fragments.
C20_CommitsConcatenation ==
    \A t \in Tasks :
        /\ tasks[t].phase = "reading" =>
              tasks[t].fullContent = Delivered(t, Len(tasks[t].fullContent))
        /\ ReceivedFrom(t, typewriterBuffer) =>
              typewriterBuffer = Delivered(t, Len(typewriterBuffer))
        /\ StreamPlayedOut(t) =>
              /\ chapters[tasks[t].chapter].content = typewriterBuffer
              /\ storyChapters[tasks[t].chapter] = typewriterBuffer


-----------------------------------------------------------------------------
(* Properties of the chapter editor: the typewriter *)

\* The text shown is a prefix of the text received.
IsPrefixOf(shown, text) ==
    /\ Len(shown) <= Len(text)
    /\ shown = SubSeq(text, 1, Len(shown))

\* C21 (claim as stated): after every step the displayed text is a prefix of
\* the received text, and a step that changes the displayed text either
\* resets it to the empty text (a new generation or refinement starts) or
\* extends it by exactly one character of the received text.
C21_DisplayedIsPrefix ==
    [][/\ IsPrefixOf(displayedContent', typewriterBuffer')
       /\ displayedContent' # displayedContent =>
            \/ displayedContent' = <<>>
            \/ /\ Len(displayedContent') = Len(displayedContent) + 1
               /\ IsPrefixOf(displayedContent, displayedContent')]_vars


-----------------------------------------------------------------------------
(* Properties of the step workflow: confirmations *)

\* A button was pressed and no request was sent: the user declined the
\* confirmation (every other counted press sends a request).
ConfirmationDeclined == clicks' # clicks /\ reqs' = reqs

\* A request that deletes later steps is sent on slot i in this step: a
\* rollback, or the refinement of a step below the story's current step.
CascadeRequestSent(i) ==
    /\ reqs[i] = NoReq
    /\ \/ reqs'[i].kind = "rollback"
       \/ reqs'[i].kind = "refine" /\ reqs'[i].step < selectedStory.current_step

-----------------------------------------------------------------------------
(* Properties of the step workflow: generation after Accept & Continue *)

\* The slots on which a generate request starts in this step.
GenerateStartedOn ==
    { i \in Slots : reqs[i].kind # "generate" /\ reqs'[i].kind = "generate" }

\* The advance request on slot i is answered in this step.
AdvanceAnswered(i) == reqs[i].kind = "advance" /\ reqs'[i] # reqs[i]

\* C23: when an advance request is answered with success and the story moves
\* to step s, exactly one generate request starts in that same step, and it
\* is for step s; for s = 10 none starts and no error is raised.  When the
\* advance fails, no generate request starts and current_step stays.  A
\* generate request starts only with a press of a button or with a
\* successful advance.
C23_AutoGenerateOnAdvance ==
    [][/\ \A i \in Slots :
            AdvanceAnswered(i) =>
                IF server'.current_step # server.current_step
                THEN LET s == server'.current_step
                     IN /\ s = server.current_step + 1
                        /\ selectedStory'.current_step = s
                        /\ currentStep' = s
                        /\ error' = error
                        /\ IF s = MAX_STEPS
                           THEN GenerateStartedOn = {} /\ reqs'[i] = NoReq
                           ELSE /\ GenerateStartedOn = {i}
                                /\ reqs'[i].step = s
                                /\ isGenerating'
                ELSE /\ GenerateStartedOn = {}
                     /\ selectedStory'.current_step = selectedStory.current_step
                     /\ server' = server
                     /\ reqs'[i] = NoReq
       /\ GenerateStartedOn # {} =>
            \/ clicks' # clicks
            \/ \E i \in Slots : AdvanceAnswered(i)]_vars

\* C23 witness: Accept & Continue was pressed twice and one of the two
\* advances failed; the other has moved the story to a step that is still
\* empty, and the generation of that step is in flight (the Generate button
\* was never pressed).
C23_Witness ==
    /\ clicks = 2
    /\ error = "Failed to advance story"
    /\ isGenerating
    /\ selectedStory = server
    /\ currentStep = server.current_step
    /\ server.steps[server.current_step] = NoContent
    /\ \E i \in Slots :
          /\ reqs[i].kind = "generate" /\ reqs[i].step = server.current_step
          /\ \A j \in Slots : j # i => reqs[j] = NoReq


-----------------------------------------------------------------------------
(* Properties of the step workflow on a story with chapters *)

\* The rollback request on slot i is answered with success in this step.
RollbackSucceeded(i) ==
    /\ reqs[i].kind = "rollback" /\ reqs'[i] = NoReq
    /\ error' = error /\ error # "Failed to rollback story"

\* The refine request on slot i, whose step was below the frontier when it
\* reached the backend, is answered with success in this step.
CascadingRefineSucceeded(i) ==
    /\ reqs[i].kind = "refine" /\ reqs'[i] = NoReq
    /\ reqs[i].phase = "rolledback" /\ reqs[i].step < reqs[i].before
    /\ error' = error /\ error # "Failed to refine content"

NoChapterContent ==
    /\ \A k \in Chapters : serverChapters[k] = NoContent
    /\ \A k \in Chapters : storyChapters[k] = NoContent
    /\ \A k \in Chapters : chapters[k].content = NoContent

-----------------------------------------------------------------------------
(* Properties of the step workflow: fresh generation *)

AdvanceInFlight(i) == reqs[i] # NoReq /\ reqs[i].kind = "advance"

\* C26 (claim as stated): a second advance request is never sent while an
\* earlier advance request for the story is still in flight.
C26_OneAdvanceInFlight ==
    [][(\E j \in Slots : AdvanceInFlight(j)) =>
          \A i \in Slots :
              reqs'[i] # reqs[i] =>
                  ~(reqs'[i] # NoReq /\ reqs'[i].kind = "advance")]_vars


-----------------------------------------------------------------------------
(* Properties of the router and the selection *)

\* The reply to a generate or refine request (all are sent for story A)
\* is handled in this step.
LateReply(i) ==
    /\ reqs[i] # NoReq
    /\ reqs[i].kind \in { "generate", "refine" }
    /\ reqs'[i] = NoReq

\* C27 (claim as stated): when the reply to a generate or refine request for
\* story A arrives after the user went back to the list or selected story B,
\* the selection is as before: still none, or still B with B's data.
C27_LateReplyKeepsSelection ==
    [][\A i \in Slots :
          LateReply(i) /\ selectedStory.story_id # "A" =>
              selectedStory' = selectedStory]_vars


\* C28 (claim as stated): whenever a story is selected, the step viewed is
\* between 1 and the current_step of that story.
C28_ViewedWithinFrontier ==
    selectedStory # NoStory =>
        currentStep \in 1..selectedStory.current_step


-----------------------------------------------------------------------------
(* Properties of useAutoSave *)

\* The call of saveFunction in position k returns in this step.
SaveEnded(k) == Len(saves') < Len(saves) /\ saves' = RemoveAt(saves, k)

\* C29 (claim as stated): when a save ends and the data was changed and
\* marked dirty while the save was in flight, isDirty is still true; and when
\* a save ends in failure (no new lastSaved), isDirty stays true and the
\* error is set.
C29_DirtyUntilSaved ==
    [][\A k \in DOMAIN saves :
          SaveEnded(k) =>
              /\ (isDirty /\ characters # saves[k].began) => isDirty'
              /\ lastSaved' = lastSaved =>
                     /\ isDirty => isDirty'
                     /\ saveError' # "none"]_vars


-----------------------------------------------------------------------------
(* Properties of the task store *)

\* Task taskId reaches 'completed' or 'failed' in this step.
ReachesFinal(taskId) ==
    /\ activeTasks[taskId] \notin FinalStatuses
    /\ activeTasks'[taskId] \in FinalStatuses

\* The history after the task has been entered: at the end, the oldest entry
\* evicted when there were 10 already.
Entered(history, taskId, status) ==
    LET entry == [task_id |-> taskId, status |-> status] IN
    IF Len(history) < HISTORY_LIMIT
    THEN Append(history, entry)
    ELSE Append(Tail(history), entry)

\* C30 (claim as stated): taskHistory never holds more than 10 entries; it
\* changes only by clearHistory or by the entry of a task at the moment the
\* task reaches 'completed' or 'failed', which is put at the end, the oldest
\* entry being evicted when there are 10 already, so that the entries are in
\* the order their tasks reached that status; and updateTask for a task that
\* is not in activeTasks changes neither activeTasks nor taskHistory.
C30_HistoryBoundedOrdered ==
    [][/\ Len(taskHistory') <= HISTORY_LIMIT
       /\ \A taskId \in TaskIds :
             ReachesFinal(taskId) =>
                 taskHistory' =
                     Entered(taskHistory, taskId, activeTasks'[taskId])
       /\ taskHistory' # taskHistory =>
             \/ lastCall'.op = "clearHistory" /\ taskHistory' = <<>>
             \/ \E taskId \in TaskIds : ReachesFinal(taskId)
       /\ (/\ lastCall'.op = "updateTask"
           /\ activeTasks[lastCall'.taskId] = NoTaskEntry) =>
              /\ activeTasks' = activeTasks
              /\ taskHistory' = taskHistory]_vars

=============================================================================
